---- MODULE Spec2Model ----
(***************************************************************************)
(* Model of src/converter.py: the text-layer decoder, the double-decode    *)
(* stage, the PDF trimming and startxref validation / repair helpers, and  *)
(* the pipeline converter_txt_para_pdf_com_reparo that chains them.        *)
(*                                                                         *)
(* A Python str and a Python bytes value are both modelled as a sequence   *)
(* of code points / octets (naturals).  Indices of the source are 0-based; *)
(* the helpers Slice, find and rfind keep the source's 0-based convention. *)
(* An Optional value is a record [some, val].                              *)
(***************************************************************************)
EXTENDS Integers, Sequences, FiniteSets

VARIABLES pc,           \* position in the pipeline / harness
          raw_text,     \* converter.py:206
          stage1,       \* converter.py:207
          stage2,       \* converter.py:208
          candidate,    \* converter.py:209, 216
          trimmed,      \* converter.py:219
          out_pdf,      \* the file written at converter.py:222
          out_pdf_rep,  \* the file written at converter.py:252
          last_sx,      \* converter.py:227
          sx_val,       \* converter.py:228
          ok,           \* converter.py:229
          fixed,        \* converter.py:246
          ret,          \* the returned tuple (converter.py:243, 250, 258)
          err,          \* the exception that ended the run, "" if none
          again         \* result of applying a stage a second time

vars == <<pc, raw_text, stage1, stage2, candidate, trimmed, out_pdf,
          out_pdf_rep, last_sx, sx_val, ok, fixed, ret, err, again>>

(***************************************************************************)
(* Bounds of the checked input families.                                   *)
(***************************************************************************)
MaxHexBytes == 5
MaxB64Groups == 2
MaxTokens == 4
MaxJunk == 1
MaxBody == 2
MaxOffset == 6

(***************************************************************************)
(* Optional values.                                                        *)
(***************************************************************************)
NoneBytes == [some |-> FALSE, val |-> <<>>]
NoneInt == [some |-> FALSE, val |-> 0]
Some(v) == [some |-> TRUE, val |-> v]

(***************************************************************************)
(* Python sequence primitives.                                             *)
(***************************************************************************)
MinOf(S) == CHOOSE x \in S : \A y \in S : x <= y
MaxOf(S) == 0 - MinOf({0 - x : x \in S})

\* b[lo:hi] for 0 <= lo
Slice(b, lo, hi) ==
    IF lo >= Len(b) \/ hi <= lo THEN <<>>
    ELSE SubSeq(b, lo + 1, IF hi < Len(b) THEN hi ELSE Len(b))

\* p occurs in b at 0-based index i
MatchAt(b, p, i) ==
    /\ i >= 0
    /\ i + Len(p) <= Len(b)
    /\ \A k \in 1..Len(p) : b[i + k] = p[k]

\* b.find(p)
find(b, p) ==
    LET S == {i \in 0..(Len(b) - Len(p)) : MatchAt(b, p, i)}
    IN IF S = {} THEN -1 ELSE MinOf(S)

\* b.rfind(p)
rfind(b, p) ==
    LET S == {i \in 0..(Len(b) - Len(p)) : MatchAt(b, p, i)}
    IN IF S = {} THEN -1 ELSE MaxOf(S)

\* p in b
Contains(b, p) == \E i \in 0..(Len(b) - Len(p)) : MatchAt(b, p, i)

\* b.startswith(p)
startswith(b, p) == MatchAt(b, p, 0)

RECURSIVE Filter(_, _, _)
\* the elements of s from index i on that are in the set Keep, in order
Filter(s, i, Keep) ==
    IF i > Len(s) THEN <<>>
    ELSE IF \A k \in i..Len(s) : s[k] \in Keep THEN SubSeq(s, i, Len(s))
    ELSE IF s[i] \in Keep THEN <<s[i]>> \o Filter(s, i + 1, Keep)
    ELSE Filter(s, i + 1, Keep)

(***************************************************************************)
(* Character classes of Python's re and str on code points below 256.      *)
(***************************************************************************)
\* \s of a str pattern, and the characters str.strip() removes
StrSpace == {9, 10, 11, 12, 13, 28, 29, 30, 31, 32, 133, 160}
\* \s of a bytes pattern
BytesSpace == {9, 10, 11, 12, 13, 32}
\* \d
Digits == 48..57
Upper == 65..90
Lower == 97..122
\* HEX_CHARS, converter.py:6
HEX_CHARS == Digits \cup (65..70) \cup (97..102)
\* [A-Za-z0-9+/]
B64Alphabet == Upper \cup Lower \cup Digits \cup {43, 47}
AllChars == 0..255

\* re.sub(r"\s+", "", s)
RemoveSpace(s) == Filter(s, 1, AllChars \ StrSpace)

\* s.strip()
strip(s) ==
    LET N == {i \in 1..Len(s) : s[i] \notin StrSpace}
    IN IF N = {} THEN <<>> ELSE SubSeq(s, MinOf(N), MaxOf(N))

\* s.lower() on the ASCII range
lower(s) == [i \in 1..Len(s) |-> IF s[i] \in Upper THEN s[i] + 32 ELSE s[i]]

\* value of one hexadecimal digit
HexVal(c) ==
    IF c \in Digits THEN c - 48
    ELSE IF c \in 65..70 THEN c - 55
    ELSE c - 87

\* bytes.fromhex(s) for s made of an even number of HEX_CHARS
fromhex(s) ==
    [i \in 1..(Len(s) \div 2) |-> 16 * HexVal(s[2 * i - 1]) + HexVal(s[2 * i])]

RECURSIVE IntOf(_, _, _)
\* int(t) for a run of digits t[i..], acc the value so far
IntOf(t, i, acc) ==
    IF i > Len(t) THEN acc ELSE IntOf(t, i + 1, 10 * acc + (t[i] - 48))

(***************************************************************************)
(* Text layer.                                                             *)
(***************************************************************************)
\* _clean_hex, converter.py:17-21
_clean_hex(s0) ==
    LET s == strip(s0)
        t == IF \/ startswith(s, <<48, 120>>)      \* "0x"
                \/ startswith(s, <<48, 88>>)       \* "0X"
                \/ startswith(s, <<92, 120>>)      \* "\x"
             THEN Slice(s, 2, Len(s)) ELSE s
    IN Filter(t, 1, HEX_CHARS)

\* the length threshold of _looks_like_base64, converter.py:25
Base64MinLen == 8

\* re.fullmatch(r"[A-Za-z0-9+/]+={0,2}", s)
B64Shape(s) ==
    LET NonAlpha == {i \in 1..Len(s) : s[i] \notin B64Alphabet}
        n == IF NonAlpha = {} THEN Len(s) ELSE MinOf(NonAlpha) - 1
    IN /\ n >= 1
       /\ Len(s) - n <= 2
       /\ \A i \in (n + 1)..Len(s) : s[i] = 61

\* _looks_like_base64 with the length test written > instead of >=
LooksLikeBase64Strict(s0) ==
    LET s == RemoveSpace(s0)
    IN B64Shape(s) /\ Len(s) > Base64MinLen

\* _looks_like_base64, converter.py:23-25
_looks_like_base64(s0) ==
    LET s == RemoveSpace(s0)
    IN B64Shape(s) /\ Len(s) >= Base64MinLen

\* the largest value of one byte, converter.py:34
ByteMax == 255

RECURSIVE IntUpTo(_, _, _)
\* int(t) for the digit run t that starts at s[i], as far as the caller needs
\* it: a value already above ByteMax can only grow and is rejected, so its
\* remaining digits are not read
IntUpTo(s, i, acc) ==
    IF i > Len(s) THEN acc
    ELSE IF s[i] \notin Digits \/ acc > ByteMax THEN acc
    ELSE IntUpTo(s, i + 1, 10 * acc + (s[i] - 48))

RECURSIVE DigitRunValues(_, _, _)
\* int(t) of every token t of re.findall(r"\d+", s) that starts in s[lo..hi],
\* in order of appearance (the range is halved to keep the evaluation shallow)
DigitRunValues(s, lo, hi) ==
    IF lo > hi THEN <<>>
    ELSE IF lo = hi
    THEN IF s[lo] \in Digits /\ (lo = 1 \/ s[lo - 1] \notin Digits)
         THEN <<IntUpTo(s, lo, 0)>>
         ELSE <<>>
    ELSE LET mid == (lo + hi) \div 2
         IN DigitRunValues(s, lo, mid) \o DigitRunValues(s, mid + 1, hi)

\* _try_parse_decimal_bytes_from_text, converter.py:27-37
_try_parse_decimal_bytes_from_text(s) ==
    LET vals == DigitRunValues(s, 1, Len(s))
    IN IF vals = <<>> THEN NoneBytes
       ELSE IF \E k \in 1..Len(vals) : ~(0 <= vals[k] /\ vals[k] <= ByteMax)
       THEN NoneBytes
       ELSE Some(vals)

\* position of a character in the Base64 alphabet (table_a2b_base64)
B64Val(c) ==
    IF c \in Upper THEN c - 65
    ELSE IF c \in Lower THEN c - 71
    ELSE IF c \in Digits THEN c + 4
    ELSE IF c = 43 THEN 62
    ELSE 63

RECURSIVE a2b_base64(_, _, _, _, _, _)
\* binascii.a2b_base64 (non-strict) as base64.b64decode calls it at
\* converter.py:45 and 51: characters outside the alphabet are skipped, a pad
\* that completes the quad ends the input, a dangling quad is an error.
a2b_base64(s, i, quad_pos, leftchar, pads, out) ==
    IF i > Len(s)
    THEN IF quad_pos # 0 THEN NoneBytes ELSE Some(out)
    ELSE LET c == s[i] IN
         IF c = 61
         THEN IF quad_pos >= 2 /\ quad_pos + pads + 1 >= 4
              THEN Some(out)
              ELSE a2b_base64(s, i + 1, quad_pos, leftchar,
                              IF quad_pos >= 2 THEN pads + 1 ELSE pads, out)
         ELSE IF c \notin B64Alphabet
         THEN a2b_base64(s, i + 1, quad_pos, leftchar, pads, out)
         ELSE LET v == B64Val(c) IN
              CASE quad_pos = 0 ->
                     a2b_base64(s, i + 1, 1, v, 0, out)
                [] quad_pos = 1 ->
                     a2b_base64(s, i + 1, 2, v % 16, 0,
                                Append(out, (leftchar * 4 + v \div 16) % 256))
                [] quad_pos = 2 ->
                     a2b_base64(s, i + 1, 3, v % 4, 0,
                                Append(out, (leftchar * 16 + v \div 4) % 256))
                [] OTHER ->
                     a2b_base64(s, i + 1, 0, 0, 0,
                                Append(out, (leftchar * 64 + v) % 256))

\* base64.b64decode(s) of a str: s.encode("ascii"), then a2b_base64
b64decode(s) ==
    IF \E i \in 1..Len(s) : s[i] > 127 THEN NoneBytes
    ELSE a2b_base64(s, 1, 0, 0, 0, <<>>)

DATA_PREFIX == <<100, 97, 116, 97, 58>>                     \* "data:"
B64_MARK == <<59, 98, 97, 115, 101, 54, 52, 44>>            \* ";base64,"

\* _to_bytes_from_text_layer, converter.py:39-67.  The result is
\* [ok, val, via]: ok = FALSE when the call raises.
_to_bytes_from_text_layer(raw) ==
    LET s == strip(raw)
        compact == RemoveSpace(s)
        b64 == b64decode(compact)
        dec == _try_parse_decimal_bytes_from_text(s)
        cleaned == _clean_hex(s)
        even == IF Len(cleaned) % 2 # 0
                THEN SubSeq(cleaned, 1, Len(cleaned) - 1) ELSE cleaned
    IN IF startswith(lower(s), DATA_PREFIX) /\ Contains(s, B64_MARK)
       THEN LET rest == Slice(s, find(s, B64_MARK) + Len(B64_MARK), Len(s))
                d == b64decode(RemoveSpace(rest))
            IN [ok |-> d.some, val |-> d.val, via |-> "dataurl"]
       ELSE IF _looks_like_base64(compact) /\ b64.some
       THEN [ok |-> TRUE, val |-> b64.val, via |-> "base64"]
       ELSE IF dec.some
       THEN [ok |-> TRUE, val |-> dec.val, via |-> "decimal"]
       ELSE IF cleaned # <<>>
       THEN [ok |-> TRUE, val |-> fromhex(even), via |-> "hex"]
       ELSE [ok |-> FALSE, val |-> <<>>, via |-> "none"]

(***************************************************************************)
(* Double-decode stage.  b.decode("latin-1") maps every octet to the code  *)
(* point of the same number, so the text is the byte sequence itself.      *)
(***************************************************************************)
\* the length threshold of _ascii_is_all_hex_pairs, converter.py:72
HexPairsMinLen == 8

\* _ascii_is_all_hex_pairs with the length test left out
AsciiIsAllHexPairsNoMin(b) ==
    LET s == RemoveSpace(b)
    IN (\A i \in 1..Len(s) : s[i] \in HEX_CHARS) /\ Len(s) % 2 = 0

\* _ascii_is_all_hex_pairs, converter.py:69-76
_ascii_is_all_hex_pairs(b) ==
    LET s == RemoveSpace(b)
    IN IF Len(s) < HexPairsMinLen THEN FALSE
       ELSE IF \E i \in 1..Len(s) : s[i] \notin HEX_CHARS THEN FALSE
       ELSE Len(s) % 2 = 0

\* _ascii_is_decimal_list, converter.py:78-80
_ascii_is_decimal_list(b) ==
    /\ \E i \in 1..Len(b) : b[i] \in Digits
    /\ Len(b) >= 1
    /\ \A i \in 1..Len(b) : b[i] \in StrSpace \cup Digits \cup {44, 59}

\* _maybe_double_decode, converter.py:82-91
_maybe_double_decode(b) ==
    IF _ascii_is_all_hex_pairs(b)
    THEN fromhex(RemoveSpace(b))
    ELSE IF _ascii_is_decimal_list(b)
            /\ _try_parse_decimal_bytes_from_text(b).some
    THEN _try_parse_decimal_bytes_from_text(b).val
    ELSE b

(***************************************************************************)
(* PDF helpers.                                                            *)
(***************************************************************************)
PDF_MAGIC == <<37, 80, 68, 70, 45>>                         \* b"%PDF-"
EOF_MARK == <<37, 37, 69, 79, 70>>                          \* b"%%EOF"
STARTXREF == <<115, 116, 97, 114, 116, 120, 114, 101, 102>> \* b"startxref"
XREF == <<120, 114, 101, 102>>                              \* b"xref"
OBJ == <<111, 98, 106>>                                     \* b"obj"
TYPE_KEY == <<47, 84, 121, 112, 101>>                       \* b"/Type"
XREF_NAME == <<47, 88, 82, 101, 102>>                       \* b"/XRef"
TYPE_XREF == TYPE_KEY \o <<32>> \o XREF_NAME                \* b"/Type /XRef"
CRLF == {13, 10}

\* _is_pdf, converter.py:95-96 (never called by the pipeline)
_is_pdf(b) == startswith(b, PDF_MAGIC)

\* _trim_to_eof cutting at the marker instead of after it
TrimBeforeMarker(pdf_bytes) ==
    LET idx == rfind(pdf_bytes, EOF_MARK)
    IN IF idx = -1 THEN pdf_bytes ELSE Slice(pdf_bytes, 0, idx)

\* _trim_to_eof, converter.py:98-105
_trim_to_eof(pdf_bytes) ==
    LET idx == rfind(pdf_bytes, EOF_MARK)
        end0 == idx + Len(EOF_MARK)
        \* the while loop: the first index >= end0 that is past the buffer or
        \* holds neither CR nor LF
        end == MinOf({e \in end0..Len(pdf_bytes) :
                        e = Len(pdf_bytes) \/ pdf_bytes[e + 1] \notin CRLF})
    IN IF idx = -1 THEN pdf_bytes ELSE Slice(pdf_bytes, 0, end)

\* _find_last_startxref, converter.py:107-109
_find_last_startxref(b) == rfind(b, STARTXREF)

\* the windows and look-back of the xref helpers
SxWindow == 100
StreamWindow == 2048
ObjLookaround == 200

\* _parse_startxref_value, converter.py:111-124.  The regular expression
\* startxref\s*[\r\n]+(\d+) is searched in b[start_idx:start_idx+100]; a
\* match at position p needs the keyword, then a run of whitespace whose last
\* octet is CR or LF, then at least one digit; the group is the digit run.
_parse_startxref_value(b, start_idx) ==
    IF start_idx < 0 THEN NoneInt
    ELSE LET w == Slice(b, start_idx, start_idx + SxWindow)
             \* end (exclusive, 0-based) of the whitespace run after p
             WsEnd(p) == MinOf({e \in (p + Len(STARTXREF))..Len(w) :
                            e = Len(w) \/ w[e + 1] \notin BytesSpace})
             Hit(p) == /\ MatchAt(w, STARTXREF, p)
                       /\ WsEnd(p) > p + Len(STARTXREF)
                       /\ w[WsEnd(p)] \in CRLF
                       /\ WsEnd(p) < Len(w)
                       /\ w[WsEnd(p) + 1] \in Digits
             Hits == {p \in 0..(Len(w) - Len(STARTXREF)) : Hit(p)}
             p0 == MinOf(Hits)
             d0 == WsEnd(p0)
             dEnd == MinOf({e \in (d0 + 1)..Len(w) :
                            e = Len(w) \/ w[e + 1] \notin Digits})
         IN IF Hits = {} THEN NoneInt
            ELSE Some(IntOf(SubSeq(w, d0 + 1, dEnd), 1, 0))

\* _looks_like_xref_table_at, converter.py:126-130
_looks_like_xref_table_at(b, offset) ==
    IF 0 <= offset /\ offset < Len(b)
    THEN Slice(b, offset, offset + 4) = XREF
    ELSE FALSE

\* _looks_like_xref_stream_at, converter.py:132-143
_looks_like_xref_stream_at(b, offset) ==
    IF ~(0 <= offset /\ offset < Len(b)) THEN FALSE
    ELSE LET window == Slice(b, offset, offset + StreamWindow)
         IN IF ~Contains(window, OBJ) THEN FALSE
            ELSE Contains(window, TYPE_KEY) /\ Contains(window, XREF_NAME)

RECURSIVE Decimal(_)
\* str(n) of a natural n, as the f-string at converter.py:187 renders it
Decimal(n) ==
    IF n < 10 THEN <<48 + n>> ELSE Decimal(n \div 10) \o <<48 + (n % 10)>>

\* re.search(rb"(\d+)\s+(\d+)\s+obj", snippet).start(), -1 when no match
ObjHeaderSearch(snippet) ==
    LET RunEnd(i, Class) == MinOf({e \in i..Len(snippet) :
                            e = Len(snippet) \/ snippet[e + 1] \notin Class})
        \* a match starting at 0-based i: digits, spaces, digits, spaces, obj
        Hit(i) ==
            /\ snippet[i + 1] \in Digits
            /\ LET a == RunEnd(i + 1, Digits) IN
               /\ a < Len(snippet) /\ snippet[a + 1] \in BytesSpace
               /\ LET c == RunEnd(a + 1, BytesSpace) IN
                  /\ c < Len(snippet) /\ snippet[c + 1] \in Digits
                  /\ LET d == RunEnd(c + 1, Digits) IN
                     /\ d < Len(snippet) /\ snippet[d + 1] \in BytesSpace
                     /\ MatchAt(snippet, OBJ, RunEnd(d + 1, BytesSpace))
        Hits == {i \in 0..(Len(snippet) - 1) : Hit(i)}
    IN IF Hits = {} THEN -1 ELSE MinOf(Hits)

\* the target offset chosen by _repair_startxref, converter.py:156-182
RepairTarget(b) ==
    LET cand_xref == rfind(b, XREF)
        cand_xref_stream == rfind(b, TYPE_XREF)
        start == IF cand_xref_stream - ObjLookaround > 0
                 THEN cand_xref_stream - ObjLookaround ELSE 0
        snippet == Slice(b, start, cand_xref_stream + ObjLookaround)
        obj_local == ObjHeaderSearch(snippet)
    IN IF cand_xref # -1 THEN Some(cand_xref)
       ELSE IF cand_xref_stream # -1 /\ obj_local # -1
       THEN Some(start + obj_local)
       ELSE NoneInt

\* _repair_startxref appending the new trailer without cutting the old one
RepairWithoutCut(b) ==
    LET sx == _find_last_startxref(b)
        target_offset == RepairTarget(b)
        tail == <<10>> \o STARTXREF \o <<10>> \o Decimal(target_offset.val)
                \o <<10>> \o EOF_MARK \o <<10>>
    IN IF sx = -1 THEN NoneBytes
       ELSE IF ~target_offset.some THEN NoneBytes
       ELSE Some(b \o tail)

\* _repair_startxref, converter.py:145-188
_repair_startxref(b) ==
    LET sx == _find_last_startxref(b)
        target_offset == RepairTarget(b)
        head == Slice(b, 0, sx)
        tail == <<10>> \o STARTXREF \o <<10>> \o Decimal(target_offset.val)
                \o <<10>> \o EOF_MARK \o <<10>>
    IN IF sx = -1 THEN NoneBytes
       ELSE IF ~target_offset.some THEN NoneBytes
       ELSE Some(head \o tail)

(***************************************************************************)
(* The pipeline converter_txt_para_pdf_com_reparo, one action per stage.   *)
(***************************************************************************)
NoFile == [written |-> FALSE, data |-> <<>>]
NotCalled == [called |-> FALSE, some |-> FALSE, val |-> <<>>]
NoReturn == [first |-> "", second |-> ""]

\* converter.py:207
Decode ==
    /\ pc = "decode"
    /\ LET r == _to_bytes_from_text_layer(raw_text)
       IN IF r.ok
          THEN /\ stage1' = r.val
               /\ pc' = "double"
               /\ err' = err
          ELSE /\ stage1' = stage1
               /\ pc' = "raised"
               /\ err' = "ValueError"
    /\ UNCHANGED <<raw_text, stage2, candidate, trimmed, out_pdf, out_pdf_rep,
                   last_sx, sx_val, ok, fixed, ret, again>>

\* converter.py:208-209
DoubleDecode ==
    /\ pc = "double"
    /\ stage2' = _maybe_double_decode(stage1)
    /\ candidate' = stage2'
    /\ pc' = "align"
    /\ UNCHANGED <<raw_text, stage1, trimmed, out_pdf, out_pdf_rep, last_sx,
                   sx_val, ok, fixed, ret, err, again>>

\* converter.py:212-216
Align ==
    /\ pc = "align"
    /\ LET pos == find(candidate, PDF_MAGIC)
       IN candidate' = IF pos > 0
                       THEN Slice(candidate, pos, Len(candidate))
                       ELSE candidate
    /\ pc' = "trim"
    /\ UNCHANGED <<raw_text, stage1, stage2, trimmed, out_pdf, out_pdf_rep,
                   last_sx, sx_val, ok, fixed, ret, err, again>>

\* converter.py:219
Trim ==
    /\ pc = "trim"
    /\ trimmed' = _trim_to_eof(candidate)
    /\ pc' = "write"
    /\ UNCHANGED <<raw_text, stage1, stage2, candidate, out_pdf, out_pdf_rep,
                   last_sx, sx_val, ok, fixed, ret, err, again>>

\* the pipeline going on to validation without writing the converted file
WriteSkipped ==
    /\ pc = "write"
    /\ pc' = "validate"
    /\ UNCHANGED <<raw_text, stage1, stage2, candidate, trimmed, out_pdf,
                   out_pdf_rep, last_sx, sx_val, ok, fixed, ret, err, again>>

\* converter.py:222
Write ==
    /\ pc = "write"
    /\ out_pdf' = [written |-> TRUE, data |-> trimmed]
    /\ pc' = "validate"
    /\ UNCHANGED <<raw_text, stage1, stage2, candidate, trimmed, out_pdf_rep,
                   last_sx, sx_val, ok, fixed, ret, err, again>>

\* the validation step returning at once when startxref is absent or illegible
ValidateGivesUp ==
    /\ pc = "validate"
    /\ last_sx' = _find_last_startxref(trimmed)
    /\ sx_val' = IF last_sx' # -1
                 THEN _parse_startxref_value(trimmed, last_sx') ELSE NoneInt
    /\ ok' = IF last_sx' = -1 \/ ~sx_val'.some THEN FALSE
             ELSE \/ _looks_like_xref_table_at(trimmed, sx_val'.val)
                  \/ _looks_like_xref_stream_at(trimmed, sx_val'.val)
    /\ IF ok' \/ last_sx' = -1 \/ ~sx_val'.some
       THEN /\ ret' = [first |-> "out_pdf", second |-> "None"]
            /\ pc' = "done"
       ELSE /\ ret' = ret
            /\ pc' = "repair"
    /\ UNCHANGED <<raw_text, stage1, stage2, candidate, trimmed, out_pdf,
                   out_pdf_rep, fixed, err, again>>

\* converter.py:227-243
Validate ==
    /\ pc = "validate"
    /\ last_sx' = _find_last_startxref(trimmed)
    /\ sx_val' = IF last_sx' # -1
                 THEN _parse_startxref_value(trimmed, last_sx') ELSE NoneInt
    /\ ok' = IF last_sx' = -1 \/ ~sx_val'.some THEN FALSE
             ELSE \/ _looks_like_xref_table_at(trimmed, sx_val'.val)
                  \/ _looks_like_xref_stream_at(trimmed, sx_val'.val)
    /\ IF ok'
       THEN /\ ret' = [first |-> "out_pdf", second |-> "None"]
            /\ pc' = "done"
       ELSE /\ ret' = ret
            /\ pc' = "repair"
    /\ UNCHANGED <<raw_text, stage1, stage2, candidate, trimmed, out_pdf,
                   out_pdf_rep, fixed, err, again>>

\* converter.py:246-258 ("not fixed" is also true of an empty result)
Repair ==
    /\ pc = "repair"
    /\ LET r == _repair_startxref(trimmed)
       IN /\ fixed' = [called |-> TRUE, some |-> r.some, val |-> r.val]
          /\ IF ~r.some \/ r.val = <<>>
             THEN /\ out_pdf_rep' = out_pdf_rep
                  /\ ret' = [first |-> "out_pdf", second |-> "None"]
             ELSE /\ out_pdf_rep' = [written |-> TRUE, data |-> r.val]
                  /\ ret' = [first |-> "out_pdf", second |-> "out_pdf_rep"]
    /\ pc' = "done"
    /\ UNCHANGED <<raw_text, stage1, stage2, candidate, trimmed, out_pdf,
                   last_sx, sx_val, ok, err, again>>

\* _maybe_double_decode applied to its own output
DoubleDecodeAgain ==
    /\ pc = "align"
    /\ again' = _maybe_double_decode(stage2)
    /\ pc' = "again"
    /\ UNCHANGED <<raw_text, stage1, stage2, candidate, trimmed, out_pdf,
                   out_pdf_rep, last_sx, sx_val, ok, fixed, ret, err>>

\* _trim_to_eof applied to its own output
TrimAgain ==
    /\ pc = "write"
    /\ again' = _trim_to_eof(trimmed)
    /\ pc' = "again"
    /\ UNCHANGED <<raw_text, stage1, stage2, candidate, trimmed, out_pdf,
                   out_pdf_rep, last_sx, sx_val, ok, fixed, ret, err>>

(***************************************************************************)
(* Input families.                                                         *)
(***************************************************************************)
\* all sequences over S of length lo..hi
SeqsOf(S, lo, hi) == UNION {[1..n -> S] : n \in lo..hi}

RECURSIVE Flatten(_)
\* the concatenation of a sequence of sequences
Flatten(ss) == IF ss = <<>> THEN <<>> ELSE Head(ss) \o Flatten(Tail(ss))

\* one hexadecimal digit, lower case, as bytes.hex() writes it
HexDigit(v) == IF v < 10 THEN 48 + v ELSE 87 + v

\* b.hex(): two digits per byte, no separator, no prefix
Hex(b) ==
    [i \in 1..(2 * Len(b)) |->
        IF i % 2 = 1 THEN HexDigit(b[(i + 1) \div 2] \div 16)
        ELSE HexDigit(b[i \div 2] % 16)]

RECURSIVE DecimalList(_, _, _)
\* the bytes b[lo..hi] as decimal numbers separated by commas
DecimalList(b, lo, hi) ==
    IF lo > hi THEN <<>>
    ELSE IF lo = hi THEN Decimal(b[lo])
    ELSE LET mid == (lo + hi) \div 2
         IN DecimalList(b, lo, mid) \o <<44>> \o DecimalList(b, mid + 1, hi)

\* byte sequences whose hexadecimal rendering is decoded
HexByteChoice == {0, 16, 37, 171}
HexSources == SeqsOf(HexByteChoice, 1, MaxHexBytes)

\* well-formed Base64 texts: full quads, the last one possibly padded
B64CharChoice == {48, 81}                                   \* "0", "Q"
B64Texts ==
    UNION {{d \o pad : d \in [1..(4 * g - Len(pad)) -> B64CharChoice]}
           : g \in 1..MaxB64Groups, pad \in {<<>>, <<61>>, <<61, 61>>}}

\* texts that take the remaining branches of the text layer
OtherTexts ==
    { DATA_PREFIX \o B64_MARK \o <<81, 85, 74, 68>>,        \* data:;base64,QUJD
      <<68, 65, 84, 65, 58, 120>> \o B64_MARK \o <<81>>,    \* DATA:x;base64,Q
      <<32, 51, 55, 44, 56, 48, 10>>,                       \* " 37,80\n"
      <<48, 120, 50, 53, 32, 53, 48, 71>>,                  \* "0x25 50G"
      <<92, 120, 65, 98, 99>>,                              \* "\xAbc"
      <<122, 122>>,                                         \* "zz"
      <<>> }

TextInputs == {Hex(b) : b \in HexSources} \cup B64Texts \cup OtherTexts

\* buffers handed to the double-decode stage: up to MaxTokens tokens
DoubleTokens ==
    { <<51, 48>>,               \* "30"
      <<54, 49>>,               \* "61"
      <<52, 57>>,               \* "49"
      <<44>>,                   \* ","
      <<32>>,                   \* " "
      <<103>> }                 \* "g"
DoubleInputs == {Flatten(t) : t \in SeqsOf(DoubleTokens, 0, MaxTokens)}

\* buffers handed to the trimming stage: up to MaxTokens tokens
TrimTokens ==
    { EOF_MARK,
      <<37>>,                   \* "%"
      <<13>>,                   \* CR
      <<10>>,                   \* LF
      <<120>>,                  \* "x"
      <<37, 69, 79, 70>> }      \* "%EOF"
TrimInputs == {Flatten(t) : t \in SeqsOf(TrimTokens, 0, MaxTokens)}

\* PDF-like buffers: junk, header, body, trailer, garbage
JunkChoice == {[i \in 1..j |-> 74] : j \in 0..MaxJunk}      \* "J" * j
HeaderChoice == {PDF_MAGIC, <<>>}
XrefTable == XREF \o <<10>>                                 \* "xref\n"
XrefStream == <<49, 32, 48, 32>> \o OBJ \o <<32>> \o TYPE_XREF \o <<10>>
                                                    \* "1 0 obj /Type /XRef\n"
BodyChoice == {Flatten(t) : t \in SeqsOf({XrefTable, XrefStream}, 0, MaxBody)}
SeparatorChoice == {<<10>>, <<32>>}
OffsetChoice == {<<>>} \cup {Decimal(n) : n \in 0..MaxOffset} \cup {Decimal(999)}
\* no trailer, or startxref, a separator and an offset (possibly missing)
TrailerChoice ==
    {<<>>} \cup {STARTXREF \o s \o o : s \in SeparatorChoice, o \in OffsetChoice}
EofChoice == {<<10>> \o EOF_MARK, <<>>}
GarbageChoice == {<<>>, <<10, 74>>}
PdfBuffers ==
    {j \o h \o b \o t \o e \o g :
        j \in JunkChoice, h \in HeaderChoice, b \in BodyChoice,
        t \in TrailerChoice, e \in EofChoice, g \in GarbageChoice}

\* the dump of a buffer as the text the pipeline reads
PipelineTexts == {DecimalList(b, 1, Len(b)) : b \in PdfBuffers} \cup {<<122, 122>>}

(***************************************************************************)
(* Specifications.                                                         *)
(***************************************************************************)
\* the whole pipeline on the dump of a PDF-like buffer
Init ==
    /\ pc = "decode"
    /\ raw_text \in PipelineTexts
    /\ stage1 = <<>>
    /\ stage2 = <<>>
    /\ candidate = <<>>
    /\ trimmed = <<>>
    /\ out_pdf = NoFile
    /\ out_pdf_rep = NoFile
    /\ last_sx = -1
    /\ sx_val = NoneInt
    /\ ok = FALSE
    /\ fixed = NotCalled
    /\ ret = NoReturn
    /\ err = ""
    /\ again = <<>>

Next ==
    \/ Decode
    \/ DoubleDecode
    \/ Align
    \/ Trim
    \/ Write
    \/ Validate
    \/ Repair

Spec == Init /\ [][Next]_vars

\* the text layer alone, on hexadecimal, Base64 and other texts
InitText ==
    /\ pc = "decode"
    /\ raw_text \in TextInputs
    /\ stage1 = <<>>
    /\ stage2 = <<>>
    /\ candidate = <<>>
    /\ trimmed = <<>>
    /\ out_pdf = NoFile
    /\ out_pdf_rep = NoFile
    /\ last_sx = -1
    /\ sx_val = NoneInt
    /\ ok = FALSE
    /\ fixed = NotCalled
    /\ ret = NoReturn
    /\ err = ""
    /\ again = <<>>

NextText == Decode

SpecText == InitText /\ [][NextText]_vars

\* the double-decode stage, applied once and then to its own output
InitDouble ==
    /\ pc = "double"
    /\ raw_text = <<>>
    /\ stage1 \in DoubleInputs
    /\ stage2 = <<>>
    /\ candidate = <<>>
    /\ trimmed = <<>>
    /\ out_pdf = NoFile
    /\ out_pdf_rep = NoFile
    /\ last_sx = -1
    /\ sx_val = NoneInt
    /\ ok = FALSE
    /\ fixed = NotCalled
    /\ ret = NoReturn
    /\ err = ""
    /\ again = <<>>

NextDouble ==
    \/ DoubleDecode
    \/ DoubleDecodeAgain

SpecDouble == InitDouble /\ [][NextDouble]_vars

\* the trimming stage, applied once and then to its own output
InitTrim ==
    /\ pc = "trim"
    /\ raw_text = <<>>
    /\ stage1 = <<>>
    /\ stage2 = <<>>
    /\ candidate \in TrimInputs
    /\ trimmed = <<>>
    /\ out_pdf = NoFile
    /\ out_pdf_rep = NoFile
    /\ last_sx = -1
    /\ sx_val = NoneInt
    /\ ok = FALSE
    /\ fixed = NotCalled
    /\ ret = NoReturn
    /\ err = ""
    /\ again = <<>>

NextTrim ==
    \/ Trim
    \/ TrimAgain

SpecTrim == InitTrim /\ [][NextTrim]_vars

(***************************************************************************)
(* Properties.                                                             *)
(***************************************************************************)
\* the three outcomes of the xref state machine, read off a finished run
Valid == pc = "done" /\ ok
Repaired == pc = "done" /\ ret.second = "out_pdf_rep"
Unrepairable == pc = "done" /\ ~ok /\ ret.second = "None"

\* t is a plain hexadecimal rendering: an even, positive number of
\* lower-case hexadecimal digits and nothing else
IsPlainHex(t) ==
    /\ Len(t) >= 2
    /\ Len(t) % 2 = 0
    /\ \A i \in 1..Len(t) : t[i] \in Digits \cup (97..102)

\* C1: the text layer applied to the plain hexadecimal rendering of a
\* non-empty byte sequence b returns b.  Hex is injective, so the result is b
\* exactly when its rendering is the text that was decoded.
C1_HexRoundTrip ==
    (pc # "decode" /\ IsPlainHex(raw_text))
        => (pc = "double" /\ Hex(stage1) = raw_text)

\* t is a well-formed Base64 text: full quads of alphabet characters, the
\* last quad ending in at most two pads
ValidBase64(t) ==
    /\ Len(t) >= 4
    /\ Len(t) % 4 = 0
    /\ \E p \in 0..2 :
         /\ \A i \in 1..(Len(t) - p) : t[i] \in B64Alphabet
         /\ \A i \in (Len(t) - p + 1)..Len(t) : t[i] = 61

\* the Base64 alphabet of RFC 4648 in order: A-Z, a-z, 0-9, +, /
RefAlphabet ==
    [i \in 1..64 |-> IF i <= 26 THEN 64 + i
                     ELSE IF i <= 52 THEN 70 + i
                     ELSE IF i <= 62 THEN i - 5
                     ELSE IF i = 63 THEN 43 ELSE 47]
RefIndex(c) == (CHOOSE i \in 1..64 : RefAlphabet[i] = c) - 1

\* reference Base64 decoding of a well-formed text: octet k (from 0) is the
\* eight bits that start at bit 8k of the string of 6-bit characters
Base64Reference(t) ==
    LET n == Cardinality({i \in 1..Len(t) : t[i] # 61})
        Pair(q) == 64 * RefIndex(t[q + 1]) + RefIndex(t[q + 2])
        Shift(k) == (8 * k) % 6
        Octet(k) == (Pair((8 * k) \div 6) \div (2 ^ (4 - Shift(k)))) % 256
    IN [k \in 1..((6 * n) \div 8) |-> Octet(k - 1)]

\* C2 as stated: every well-formed Base64 text, of any length, is decoded as
\* the reference decoder decodes it
C2_Base64AnyLength ==
    (pc # "decode" /\ ValidBase64(raw_text))
        => (pc = "double" /\ stage1 = Base64Reference(raw_text))

\* C2: every well-formed Base64 text of at least 8 characters is decoded as
\* the reference decoder decodes it
C2_Base64FromEightChars ==
    (pc # "decode" /\ ValidBase64(raw_text) /\ Len(raw_text) >= Base64MinLen)
        => (pc = "double" /\ stage1 = Base64Reference(raw_text))

C2_Witness ==
    /\ pc = "double"
    /\ ValidBase64(raw_text)
    /\ Len(raw_text) >= Base64MinLen
    /\ raw_text[Len(raw_text)] = 61
    /\ stage1 = Base64Reference(raw_text)
    /\ stage1 # <<>>

\* b, read as Latin-1 text without its whitespace, is at least 8 hexadecimal
\* digits, an even number of them, and nothing else
IsHexText(b) ==
    LET t == SelectSeq(b, LAMBDA c : c \notin StrSpace)
    IN /\ Len(t) >= HexPairsMinLen
       /\ Len(t) % 2 = 0
       /\ \A i \in 1..Len(t) : t[i] \in HEX_CHARS

\* b is a decimal byte list: digits, whitespace, commas and semicolons only,
\* at least one digit, and no number above 255 (a number above 255 has, after
\* its leading zeros, more than three digits or three digits above "255")
IsDecimalByteList(b) ==
    LET Sig(i) == {j \in i..Len(b) :
                     /\ b[j] \in Digits
                     /\ \A k \in i..j : b[k] \in Digits
                     /\ \E k \in i..j : b[k] # 48}
        Small(i) ==
            \/ Cardinality(Sig(i)) <= 2
            \/ /\ Cardinality(Sig(i)) = 3
               /\ LET z == MinOf(Sig(i))
                  IN 100 * (b[z] - 48) + 10 * (b[z + 1] - 48) + (b[z + 2] - 48)
                        <= 255
    IN /\ \E i \in 1..Len(b) : b[i] \in Digits
       /\ \A i \in 1..Len(b) : b[i] \in StrSpace \cup Digits \cup {44, 59}
       /\ \A i \in 1..Len(b) :
            (b[i] \in Digits /\ (i = 1 \/ b[i - 1] \notin Digits)) => Small(i)

\* C3 as stated: the double-decode stage is idempotent
C3_DoubleDecodeIdempotent ==
    pc = "again" => again = stage2

\* C3: a second application leaves the output of the first unchanged whenever
\* that output is not itself ASCII hexadecimal pairs or a decimal byte list
C3_IdempotentOnDecodedOutput ==
    (pc = "again" /\ ~IsHexText(stage2) /\ ~IsDecimalByteList(stage2))
        => again = stage2

C3_Witness ==
    /\ pc = "again"
    /\ stage2 # stage1
    /\ ~IsHexText(stage2)
    /\ ~IsDecimalByteList(stage2)
    /\ again = stage2

\* the offsets of the cross-reference table keyword in b: the occurrences of
\* xref that are not the tail of a startxref keyword
TableKeywordOffsets(b) ==
    {i \in 0..(Len(b) - Len(XREF)) :
        MatchAt(b, XREF, i) /\ ~MatchAt(b, STARTXREF, i - 5)}

\* the startxref value a reader finds in buffer f
StartxrefOf(f) == _parse_startxref_value(f, _find_last_startxref(f))

\* C4: when the startxref offset does not resolve and the buffer holds a
\* cross-reference table keyword, the repaired buffer's startxref value is the
\* offset of the last such keyword
C4_RepairPointsAtLastTable ==
    (/\ pc = "done"
     /\ last_sx # -1
     /\ sx_val.some
     /\ ~ok
     /\ TableKeywordOffsets(trimmed) # {})
        => /\ out_pdf_rep.written
           /\ StartxrefOf(out_pdf_rep.data)
                 = Some(MaxOf(TableKeywordOffsets(trimmed)))

\* Locate, Parse offset and Validate reach Valid on buffer f
ValidatesAsPdf(f) ==
    /\ _find_last_startxref(f) # -1
    /\ StartxrefOf(f).some
    /\ \/ _looks_like_xref_table_at(f, StartxrefOf(f).val)
       \/ _looks_like_xref_stream_at(f, StartxrefOf(f).val)

\* C5: every repaired buffer validates
C5_RepairedValidates ==
    Repaired => ValidatesAsPdf(out_pdf_rep.data)

\* C6 as stated: a startxref keyword without a parseable offset ends the run
\* Unrepairable, the repair not run and no repaired artifact written
C6_IllegibleIsUnrepairable ==
    (pc = "done" /\ last_sx # -1 /\ ~sx_val.some)
        => (~fixed.called /\ ~out_pdf_rep.written /\ Unrepairable)

\* C6: a startxref keyword without a parseable offset is never Valid and the
\* repair runs; the repaired artifact is written exactly when the repair
\* finds a target, and the run is Unrepairable only when it finds none
C6_IllegibleGoesToRepair ==
    (pc \in {"repair", "done"} /\ last_sx # -1 /\ ~sx_val.some)
        => /\ ~ok
           /\ pc = "done" =>
                /\ fixed.called
                /\ out_pdf_rep.written <=> fixed.some
                /\ Repaired <=> fixed.some
                /\ Unrepairable <=> ~fixed.some

C6_Witness ==
    /\ pc = "done"
    /\ last_sx # -1
    /\ ~sx_val.some
    /\ fixed.called
    /\ Repaired

\* C7: a converted PDF that is written begins with %PDF-, and a run whose
\* decoded buffer holds no %PDF- writes no converted PDF and does not go on to
\* validation
C7_ConvertedIsPdf ==
    /\ out_pdf.written => _is_pdf(out_pdf.data)
    /\ pc \in {"validate", "repair", "done"} => Contains(stage2, PDF_MAGIC)

\* C8: the converted PDF is the aligned and trimmed buffer, written before
\* validation starts and never changed after; it is the first result of every
\* finished run; a Valid run never calls the repair; an Unrepairable run
\* raises nothing and writes no repaired artifact
C8_RepairFailureDowngrades ==
    /\ pc \in {"validate", "repair", "done"} =>
          /\ out_pdf = [written |-> TRUE, data |-> trimmed]
          /\ trimmed = _trim_to_eof(candidate)
    /\ pc \in {"decode", "double", "align", "trim", "write", "validate"} =>
          ~fixed.called /\ ~out_pdf_rep.written
    /\ pc \in {"decode", "double", "align", "trim", "write"} =>
          last_sx = -1 /\ ~sx_val.some /\ ~ok
    /\ pc # "raised" => err = ""
    /\ pc = "done" => ret.first = "out_pdf"
    /\ pc = "done" => (Valid \/ Repaired \/ Unrepairable)
    /\ Valid => ~fixed.called /\ ret.second = "None" /\ ~out_pdf_rep.written
    /\ Unrepairable => ~out_pdf_rep.written /\ fixed.called /\ ~fixed.some

C8_Witness ==
    /\ Unrepairable
    /\ fixed.called
    /\ out_pdf = [written |-> TRUE, data |-> trimmed]
    /\ trimmed # <<>>

\* C9: trimming is idempotent; the trimmed buffer is the input up to the end
\* of its last %%EOF and of the CR / LF bytes right after it, and the input
\* itself when it holds no %%EOF
C9_TrimIdempotent ==
    pc = "again" =>
        /\ again = trimmed
        /\ IF ~Contains(candidate, EOF_MARK) THEN trimmed = candidate
           ELSE LET m == MaxOf({i \in 0..Len(candidate) :
                                  MatchAt(candidate, EOF_MARK, i)}) + 5
                    n == Len(trimmed)
                IN /\ m <= n
                   /\ n <= Len(candidate)
                   /\ trimmed = SubSeq(candidate, 1, n)
                   /\ \A i \in (m + 1)..n : candidate[i] \in CRLF
                   /\ n < Len(candidate) => candidate[n + 1] \notin CRLF

C9_Witness ==
    /\ pc = "again"
    /\ Contains(candidate, EOF_MARK)
    /\ Len(trimmed) < Len(candidate)
    /\ trimmed[Len(trimmed)] \in CRLF
    /\ again = trimmed

\* the fresh trailer for target offset t
FreshTrailer(t) ==
    STARTXREF \o <<10>> \o Decimal(t) \o <<10>> \o EOF_MARK \o <<10>>

\* C10 as stated: the repaired buffer is the input up to its last startxref
\* keyword, immediately followed by the fresh trailer, and the input is left
\* as it was
C10_OnlyTrailerRewritten ==
    Repaired =>
        /\ out_pdf.data = trimmed
        /\ \E t \in 0..Len(trimmed) :
             out_pdf_rep.data
               = SubSeq(trimmed, 1, rfind(trimmed, STARTXREF)) \o FreshTrailer(t)

\* C10: the repaired buffer is the input up to its last startxref keyword,
\* then one LF, then the fresh trailer, and the input is left as it was
C10_TrailerRewrittenAfterLF ==
    Repaired =>
        /\ out_pdf.data = trimmed
        /\ trimmed = _trim_to_eof(candidate)
        /\ \E t \in 0..Len(trimmed) :
             out_pdf_rep.data
               = SubSeq(trimmed, 1, rfind(trimmed, STARTXREF))
                   \o <<10>> \o FreshTrailer(t)

C10_Witness ==
    /\ Repaired
    /\ rfind(trimmed, STARTXREF) > 0
    /\ out_pdf_rep.data # trimmed

====
